---- MODULE Spec2Model ----
(***************************************************************************)
(* Model of agent/agent_pool.go: the lifecycle of one agent process.       *)
(*                                                                         *)
(* AgentPool.Start registers the agent (RegisterAgent, a retry.Do loop     *)
(* around APIClient.Agents.Register), creates an AgentWorker, connects it, *)
(* arms the signal watcher, blocks in worker.Start, disconnects and exits. *)
(* The signal watcher's callback runs concurrently with that sequence.     *)
(*                                                                         *)
(* The packages logger, retry, signalwatcher, api and the AgentWorker type *)
(* are used by agent_pool.go through their contracts only; they are        *)
(* modelled from the written description of those contracts.               *)
(***************************************************************************)
EXTENDS Integers, Sequences, FiniteSets, TLC

\* ---------------------------------------------------------------- bounds
\* Number of signals the environment sends during one process lifetime.
MaxSignals == 3
\* worker.ExitStatus ranges over 0..MaxExitStatus.
MaxExitStatus == 1

\* ------------------------------------------------------ program constants
\* retry.Config{Maximum: 30, Interval: 1 * time.Second}
Maximum == 30
\* the interval in milliseconds
Interval == 1000
\* resp.StatusCode == 401
StatusUnauthorized == 401
\* exit code of a process ended by logger.Fatal
FatalExitCode == 1

\* signalwatcher.QUIT
QUIT == "QUIT"
\* the signal kinds the watcher reports
Signals == {QUIT, "HUP"}

ExitStatuses == 0..MaxExitStatus

\* ----------------------------------------------------------------- values
NoErr == [kind |-> "nil", attempt |-> 0]
Err(kind, k) == [kind |-> kind, attempt |-> k]

NilAgent == [name |-> "nil", attempt |-> 0]
\* the template built by CreateAgentTemplate
Template == [name |-> "template", attempt |-> 0]
\* the template with the EC2 tags appended to its meta-data
TemplateEC2 == [name |-> "template+ec2", attempt |-> 0]
\* the templates CreateAgentTemplate can return
Templates == {Template, TemplateEC2}
\* the agent record the service returns for its k-th call
RegisteredAgent(k) == [name |-> "registered", attempt |-> k]

\* The ways one call of the registration service can end.
Outcomes == {"ok", "unauthorized", "server_error", "no_response"}

NoResp == 0
\* Status code carried by the response of a call that ended as `kind`;
\* a transport failure carries no response at all.
StatusOf(kind) ==
    CASE kind = "ok"           -> 200
      [] kind = "unauthorized" -> StatusUnauthorized
      [] kind = "server_error" -> 500
      [] OTHER                 -> NoResp

\* r.APIClient.Agents.Register(agent): (registered, resp, err)
APIRegister(kind, k) ==
    IF kind = "ok"
    THEN [agent |-> RegisteredAgent(k), resp |-> StatusOf(kind), err |-> NoErr]
    ELSE [agent |-> NilAgent, resp |-> StatusOf(kind), err |-> Err(kind, k)]

VARIABLES
    pc,               \* position of AgentPool.Start
    exitWithStatus,   \* r.AgentConfiguration.ExitWithStatus
    descriptor,       \* the agent template handed to RegisterAgent
    attempts,         \* log of the calls made to Agents.Register
    sleeps,           \* number of delays retry.Do has slept
    sleptTime,        \* total time slept by retry.Do, in milliseconds
    registered,       \* RegisterAgent's variable `registered`
    regErr,           \* RegisterAgent's variable `err`
    worker,           \* worker.Agent, NilAgent while no worker exists
    connectCalls,     \* invocations of worker.Connect
    connectErr,       \* what worker.Connect returned
    armed,            \* signalwatcher.Watch has been called
    startCalls,       \* invocations of worker.Start
    startErr,         \* what worker.Start returned
    startReturned,    \* worker.Start has returned
    stopCalls,        \* invocations of worker.Stop
    stopsBeforeStart, \* of those, the ones made before worker.Start was invoked
    stopsAfterReturn, \* of those, the ones made after worker.Start returned
    disconnectCalls,  \* invocations of worker.Disconnect
    exitStatus,       \* worker.ExitStatus
    exitCode,         \* exit code of the process, -1 while none
    sigWatched,       \* signals handed to the callback, per kind
    sigUnwatched      \* signals received while no watcher was armed, per kind

vars == <<pc, exitWithStatus, descriptor, attempts, sleeps, sleptTime,
          registered, regErr,
          worker, connectCalls, connectErr, armed, startCalls, startErr,
          startReturned, stopCalls, stopsBeforeStart, stopsAfterReturn,
          disconnectCalls,
          exitStatus, exitCode, sigWatched, sigUnwatched>>

regVars    == <<attempts, sleeps, sleptTime, registered, regErr>>
workerVars == <<worker, connectCalls, connectErr, startCalls, startErr,
                startReturned, disconnectCalls, exitStatus>>
sigVars    == <<armed, stopCalls, stopsBeforeStart, stopsAfterReturn, sigWatched,
                sigUnwatched>>

\* The process is gone after os.Exit or an unrecovered panic.
Alive == pc \notin {"Exited", "Panicked"}

SignalsSent ==
    LET Sum(f) == f[QUIT] + f["HUP"]
    IN  Sum(sigWatched) + Sum(sigUnwatched)

Init ==
    /\ pc = "Register"
    /\ exitWithStatus \in BOOLEAN
    /\ descriptor \in Templates
    /\ attempts = <<>>
    /\ sleeps = 0
    /\ sleptTime = 0
    /\ registered = NilAgent
    /\ regErr = NoErr
    /\ worker = NilAgent
    /\ connectCalls = 0
    /\ connectErr = NoErr
    /\ armed = FALSE
    /\ startCalls = 0
    /\ startErr = NoErr
    /\ startReturned = FALSE
    /\ stopCalls = 0
    /\ stopsBeforeStart = 0
    /\ stopsAfterReturn = 0
    /\ disconnectCalls = 0
    /\ exitStatus = 0
    /\ exitCode = -1
    /\ sigWatched = [s \in Signals |-> 0]
    /\ sigUnwatched = [s \in Signals |-> 0]

\* ------------------------------------------------------------ registration

\* Mutation: the closure breaks on every failed attempt.
register_breakAlways(res) ==
    IF res.err # NoErr
    THEN IF res.resp = NoResp
         THEN [err |-> res.err, brk |-> FALSE, panic |-> TRUE]
         ELSE [err |-> res.err, brk |-> TRUE, panic |-> FALSE]
    ELSE [err |-> res.err, brk |-> FALSE, panic |-> FALSE]

\* Mutation: the closure never breaks.
register_neverBreak(res) ==
    IF res.err # NoErr
    THEN IF res.resp = NoResp
         THEN [err |-> res.err, brk |-> FALSE, panic |-> TRUE]
         ELSE [err |-> res.err, brk |-> FALSE, panic |-> FALSE]
    ELSE [err |-> res.err, brk |-> FALSE, panic |-> FALSE]

\* The closure `register` of RegisterAgent, applied to what Agents.Register
\* returned: the error it returns, whether it called s.Break(), and whether
\* it panicked reading resp.StatusCode through a nil resp.
register(res) ==
    IF res.err # NoErr
    THEN IF res.resp = NoResp
         THEN [err |-> res.err, brk |-> FALSE, panic |-> TRUE]
         ELSE IF res.resp = StatusUnauthorized
              THEN [err |-> res.err, brk |-> TRUE, panic |-> FALSE]
              ELSE [err |-> res.err, brk |-> FALSE, panic |-> FALSE]
    ELSE [err |-> res.err, brk |-> FALSE, panic |-> FALSE]

\* retry.Do after attempt number n returned err: TRUE when Do returns err,
\* FALSE when it sleeps for the interval and tries again.
RetryReturns(err, brk, n) ==
    \/ err = NoErr
    \/ brk
    \/ n >= Maximum

\* Mutation: after the first attempt the closure sends what the previous
\* attempt returned.
RegisterAttempt_resend(kind) ==
    /\ pc = "Register"
    /\ LET k   == Len(attempts) + 1
           res == APIRegister(kind, k)
           c   == register(res)
       IN  /\ attempts' = Append(attempts,
                  [kind |-> kind,
                   sent |-> IF k = 1 THEN descriptor ELSE registered])
           /\ registered' = res.agent
           /\ regErr' = res.err
           /\ pc' = IF c.panic THEN "Panicked"
                    ELSE IF RetryReturns(c.err, c.brk, k) THEN "RegReturned"
                    ELSE "Sleep"
    /\ UNCHANGED <<exitWithStatus, descriptor, sleeps, sleptTime, exitCode>>
    /\ UNCHANGED workerVars
    /\ UNCHANGED sigVars

\* One attempt of RegisterAgent: retry.Do calls the closure, which calls
\* Agents.Register and stores what it returned.
RegisterAttempt(kind) ==
    /\ pc = "Register"
    /\ LET k   == Len(attempts) + 1
           res == APIRegister(kind, k)
           c   == register(res)
       IN  /\ attempts' = Append(attempts, [kind |-> kind, sent |-> descriptor])
           /\ registered' = res.agent
           /\ regErr' = res.err
           /\ pc' = IF c.panic THEN "Panicked"
                    ELSE IF RetryReturns(c.err, c.brk, k) THEN "RegReturned"
                    ELSE "Sleep"
    /\ UNCHANGED <<exitWithStatus, descriptor, sleeps, sleptTime, exitCode>>
    /\ UNCHANGED workerVars
    /\ UNCHANGED sigVars

\* retry.Do sleeps for the interval between two attempts.
RetrySleep ==
    /\ pc = "Sleep"
    /\ sleeps' = sleeps + 1
    /\ sleptTime' = sleptTime + Interval
    /\ pc' = "Register"
    /\ UNCHANGED <<exitWithStatus, descriptor, attempts, registered, regErr,
                   exitCode>>
    /\ UNCHANGED workerVars
    /\ UNCHANGED sigVars

\* logger.Fatal: log the message and end the process.
Fatal ==
    /\ pc' = "Exited"
    /\ exitCode' = FatalExitCode

\* Mutation: the registration error is fatal whatever it is.
RegisterFatal_always ==
    /\ pc = "RegReturned"
    /\ Fatal
    /\ UNCHANGED <<exitWithStatus, descriptor>>
    /\ UNCHANGED regVars
    /\ UNCHANGED workerVars
    /\ UNCHANGED sigVars

\* if err != nil { logger.Fatal("%s", err) } after RegisterAgent
RegisterFatal ==
    /\ pc = "RegReturned"
    /\ regErr # NoErr
    /\ Fatal
    /\ UNCHANGED <<exitWithStatus, descriptor>>
    /\ UNCHANGED regVars
    /\ UNCHANGED workerVars
    /\ UNCHANGED sigVars

\* ------------------------------------------------------------------ worker

\* Mutation: the worker is created without looking at the registration error.
CreateWorker_unchecked ==
    /\ pc = "RegReturned"
    /\ worker' = registered
    /\ pc' = "Connect"
    /\ UNCHANGED <<exitWithStatus, descriptor, exitCode, connectCalls, connectErr,
                   startCalls, startErr, startReturned, disconnectCalls,
                   exitStatus>>
    /\ UNCHANGED regVars
    /\ UNCHANGED sigVars

\* Mutation: the worker is created from the template.
CreateWorker_fromTemplate ==
    /\ pc = "RegReturned"
    /\ regErr = NoErr
    /\ worker' = descriptor
    /\ pc' = "Connect"
    /\ UNCHANGED <<exitWithStatus, descriptor, exitCode, connectCalls,
                   connectErr, startCalls, startErr, startReturned,
                   disconnectCalls, exitStatus>>
    /\ UNCHANGED regVars
    /\ UNCHANGED sigVars

\* worker := AgentWorker{Agent: registered, ...}.Create()
CreateWorker ==
    /\ pc = "RegReturned"
    /\ regErr = NoErr
    /\ worker' = registered
    /\ pc' = "Connect"
    /\ UNCHANGED <<exitWithStatus, descriptor, exitCode, connectCalls, connectErr,
                   startCalls, startErr, startReturned, disconnectCalls,
                   exitStatus>>
    /\ UNCHANGED regVars
    /\ UNCHANGED sigVars

\* worker.Connect() is invoked.
ConnectCall ==
    /\ pc = "Connect"
    /\ connectCalls' = connectCalls + 1
    /\ pc' = "Connecting"
    /\ UNCHANGED <<exitWithStatus, descriptor, exitCode, worker, connectErr, startCalls,
                   startErr, startReturned, disconnectCalls, exitStatus>>
    /\ UNCHANGED regVars
    /\ UNCHANGED sigVars

\* Mutation: the error of worker.Connect is not looked at.
ConnectReturn_unchecked(failed) ==
    /\ pc = "Connecting"
    /\ connectErr' = IF failed THEN Err("connect", connectCalls) ELSE NoErr
    /\ pc' = "Watch"
    /\ UNCHANGED exitCode
    /\ UNCHANGED <<exitWithStatus, descriptor, worker, connectCalls, startCalls, startErr,
                   startReturned, disconnectCalls, exitStatus>>
    /\ UNCHANGED regVars
    /\ UNCHANGED sigVars

\* Mutation: a failed worker.Connect is tried again.
ConnectReturn_retry(failed) ==
    /\ pc = "Connecting"
    /\ connectErr' = IF failed THEN Err("connect", connectCalls) ELSE NoErr
    /\ pc' = IF failed THEN "Connect" ELSE "Watch"
    /\ UNCHANGED exitCode
    /\ UNCHANGED <<exitWithStatus, descriptor, worker, connectCalls, startCalls,
                   startErr, startReturned, disconnectCalls, exitStatus>>
    /\ UNCHANGED regVars
    /\ UNCHANGED sigVars

\* worker.Connect() returns; if err != nil { logger.Fatal("%s", err) }
ConnectReturn(failed) ==
    /\ pc = "Connecting"
    /\ connectErr' = IF failed THEN Err("connect", connectCalls) ELSE NoErr
    /\ IF failed THEN Fatal ELSE pc' = "Watch" /\ UNCHANGED exitCode
    /\ UNCHANGED <<exitWithStatus, descriptor, worker, connectCalls, startCalls, startErr,
                   startReturned, disconnectCalls, exitStatus>>
    /\ UNCHANGED regVars
    /\ UNCHANGED sigVars

\* Mutation: the watcher is armed as soon as the process runs.
ArmWatcher_early ==
    /\ pc \in {"Register", "Watch"}
    /\ ~armed
    /\ armed' = TRUE
    /\ pc' = IF pc = "Watch" THEN "StartCall" ELSE pc
    /\ UNCHANGED <<exitWithStatus, descriptor, exitCode, stopCalls,
                   stopsBeforeStart, stopsAfterReturn, sigWatched,
                   sigUnwatched>>
    /\ UNCHANGED regVars
    /\ UNCHANGED workerVars

\* signalwatcher.Watch(func(sig) {...}) returns at once with the watcher armed.
ArmWatcher ==
    /\ pc = "Watch"
    /\ armed' = TRUE
    /\ pc' = "StartCall"
    /\ UNCHANGED <<exitWithStatus, descriptor, exitCode, stopCalls,
                   stopsBeforeStart, stopsAfterReturn, sigWatched,
                   sigUnwatched>>
    /\ UNCHANGED regVars
    /\ UNCHANGED workerVars

\* worker.Start() is invoked and blocks.
StartCall ==
    /\ pc = "StartCall"
    /\ startCalls' = startCalls + 1
    /\ pc' = "Running"
    /\ UNCHANGED <<exitWithStatus, descriptor, exitCode, worker, connectCalls, connectErr,
                   startErr, startReturned, disconnectCalls, exitStatus>>
    /\ UNCHANGED regVars
    /\ UNCHANGED sigVars

\* worker.Start() returns, on its own or after a Stop request, having
\* recorded the exit status.
StartReturn(failed, status) ==
    /\ pc = "Running"
    /\ startErr' = IF failed THEN Err("start", startCalls) ELSE NoErr
    /\ startReturned' = TRUE
    /\ exitStatus' = status
    /\ pc' = "StartReturned"
    /\ UNCHANGED <<exitWithStatus, descriptor, exitCode, worker, connectCalls, connectErr,
                   startCalls, disconnectCalls>>
    /\ UNCHANGED regVars
    /\ UNCHANGED sigVars

\* Mutation: the error of worker.Start is logged and the sequence goes on.
StartFatal_logOnly ==
    /\ pc = "StartReturned"
    /\ startErr # NoErr
    /\ pc' = "Disconnected"
    /\ UNCHANGED exitCode
    /\ UNCHANGED <<exitWithStatus, descriptor>>
    /\ UNCHANGED regVars
    /\ UNCHANGED workerVars
    /\ UNCHANGED sigVars

\* if err := worker.Start(); err != nil { logger.Fatal("%s", err) }
StartFatal ==
    /\ pc = "StartReturned"
    /\ startErr # NoErr
    /\ Fatal
    /\ UNCHANGED <<exitWithStatus, descriptor>>
    /\ UNCHANGED regVars
    /\ UNCHANGED workerVars
    /\ UNCHANGED sigVars

\* Mutation: the watcher is torn down when the worker is disconnected.
Disconnect_teardown ==
    /\ pc = "StartReturned"
    /\ startErr = NoErr
    /\ disconnectCalls' = disconnectCalls + 1
    /\ armed' = FALSE
    /\ pc' = "Disconnected"
    /\ UNCHANGED <<exitWithStatus, descriptor, exitCode, worker, connectCalls,
                   connectErr, startCalls, startErr, startReturned, exitStatus>>
    /\ UNCHANGED regVars
    /\ UNCHANGED <<stopCalls, stopsBeforeStart, stopsAfterReturn, sigWatched,
                   sigUnwatched>>

\* Mutation: a stop request makes the orchestrator give up waiting for
\* worker.Start and disconnect.
Disconnect_onStop ==
    /\ \/ pc = "StartReturned" /\ startErr = NoErr
       \/ pc = "Running" /\ stopCalls > 0
    /\ disconnectCalls' = disconnectCalls + 1
    /\ pc' = "Disconnected"
    /\ UNCHANGED <<exitWithStatus, descriptor, exitCode, worker, connectCalls,
                   connectErr, startCalls, startErr, startReturned, exitStatus>>
    /\ UNCHANGED regVars
    /\ UNCHANGED sigVars

\* Mutation: the disconnect call is left out.
Disconnect_skipped ==
    /\ pc = "StartReturned"
    /\ startErr = NoErr
    /\ pc' = "Disconnected"
    /\ UNCHANGED <<exitWithStatus, descriptor, exitCode, worker, connectCalls, connectErr,
                   startCalls, startErr, startReturned, exitStatus,
                   disconnectCalls>>
    /\ UNCHANGED regVars
    /\ UNCHANGED sigVars

\* worker.Disconnect()
Disconnect ==
    /\ pc = "StartReturned"
    /\ startErr = NoErr
    /\ disconnectCalls' = disconnectCalls + 1
    /\ pc' = "Disconnected"
    /\ UNCHANGED <<exitWithStatus, descriptor, exitCode, worker, connectCalls, connectErr,
                   startCalls, startErr, startReturned, exitStatus>>
    /\ UNCHANGED regVars
    /\ UNCHANGED sigVars

\* Mutation: the process exits with status 0 instead of the worker's status.
Finish_exitZero ==
    /\ pc = "Disconnected"
    /\ IF exitWithStatus
       THEN pc' = "Exited" /\ exitCode' = 0
       ELSE pc' = "Returned" /\ UNCHANGED exitCode
    /\ UNCHANGED <<exitWithStatus, descriptor>>
    /\ UNCHANGED regVars
    /\ UNCHANGED workerVars
    /\ UNCHANGED sigVars

\* if ExitWithStatus { os.Exit(worker.ExitStatus) }; return nil
Finish ==
    /\ pc = "Disconnected"
    /\ IF exitWithStatus
       THEN pc' = "Exited" /\ exitCode' = exitStatus
       ELSE pc' = "Returned" /\ UNCHANGED exitCode
    /\ UNCHANGED <<exitWithStatus, descriptor>>
    /\ UNCHANGED regVars
    /\ UNCHANGED workerVars
    /\ UNCHANGED sigVars

\* ----------------------------------------------------------------- signals

\* Mutation: the callback stops the worker on every signal.
onSignal_anySignal(sig) == 1

\* The callback handed to signalwatcher.Watch: the number of worker.Stop()
\* calls it makes for one signal.
onSignal(sig) == IF sig = QUIT THEN 1 ELSE 0

\* The armed watcher receives a signal and runs the callback on it.
SignalWatched(sig) ==
    /\ Alive
    /\ armed
    /\ SignalsSent < MaxSignals
    /\ sigWatched' = [sigWatched EXCEPT ![sig] = @ + 1]
    /\ stopCalls' = stopCalls + onSignal(sig)
    /\ stopsBeforeStart' =
          IF startCalls = 0 THEN stopsBeforeStart + onSignal(sig)
          ELSE stopsBeforeStart
    /\ stopsAfterReturn' =
          IF startReturned THEN stopsAfterReturn + onSignal(sig)
          ELSE stopsAfterReturn
    /\ UNCHANGED <<pc, exitWithStatus, descriptor, exitCode, armed, sigUnwatched>>
    /\ UNCHANGED regVars
    /\ UNCHANGED workerVars

\* A signal arrives while no watcher is armed: no code of AgentPool sees it.
SignalUnwatched(sig) ==
    /\ Alive
    /\ ~armed
    /\ SignalsSent < MaxSignals
    /\ sigUnwatched' = [sigUnwatched EXCEPT ![sig] = @ + 1]
    /\ UNCHANGED <<pc, exitWithStatus, descriptor, exitCode, armed, sigWatched,
                   stopCalls, stopsBeforeStart, stopsAfterReturn>>
    /\ UNCHANGED regVars
    /\ UNCHANGED workerVars

Next ==
    \/ \E kind \in Outcomes : RegisterAttempt(kind)
    \/ RetrySleep
    \/ RegisterFatal
    \/ CreateWorker
    \/ ConnectCall
    \/ \E failed \in BOOLEAN : ConnectReturn(failed)
    \/ ArmWatcher
    \/ StartCall
    \/ \E failed \in BOOLEAN, status \in ExitStatuses : StartReturn(failed, status)
    \/ StartFatal
    \/ Disconnect
    \/ Finish
    \/ \E sig \in Signals : SignalWatched(sig)
    \/ \E sig \in Signals : SignalUnwatched(sig)

Spec == Init /\ [][Next]_vars

\* The steps AgentPool.Start takes by itself, without waiting for the
\* registration service or the worker.
Orchestrator ==
    \/ RegisterFatal
    \/ CreateWorker
    \/ ConnectCall
    \/ ArmWatcher
    \/ StartCall
    \/ StartFatal
    \/ Disconnect
    \/ Finish

\* A worker whose Start returns once Stop has been requested.
StopHonoured ==
    /\ stopCalls > 0
    /\ \E failed \in BOOLEAN, status \in ExitStatuses :
          StartReturn(failed, status)

\* The orchestrator's goroutine keeps running and the worker honours Stop.
LiveSpec == Spec /\ WF_vars(Orchestrator) /\ WF_vars(StopHonoured)

\* ------------------------------------------------------------- properties

\* C1: if worker.Start returns an error, worker.Disconnect is still invoked
\* exactly once before the process terminates with the fatal outcome.
C1_DisconnectAfterStartError ==
    (startReturned /\ startErr # NoErr /\ pc = "Exited") => disconnectCalls = 1

\* C2: if worker.Connect returns an error, the process ends there and
\* worker.Start, worker.Stop and worker.Disconnect are never invoked,
\* whatever signals were delivered.
C2_ConnectFailureStopsEverything ==
    connectErr # NoErr =>
        /\ pc = "Exited"
        /\ exitCode = FatalExitCode
        /\ startCalls = 0
        /\ stopCalls = 0
        /\ disconnectCalls = 0

C2_Witness ==
    /\ connectErr # NoErr
    /\ pc = "Exited"
    /\ sigUnwatched[QUIT] > 0

\* C3: a QUIT signal handed to the callback while worker.Start is blocked
\* makes exactly one worker.Stop call and any other signal makes none; the
\* number of Stop calls always equals the number of QUIT signals the armed
\* watcher has received.
C3_StopPerQuit ==
    [][ /\ stopCalls' = sigWatched'[QUIT]
        /\ \A s \in Signals :
              (pc = "Running" /\ sigWatched'[s] = sigWatched[s] + 1) =>
                  stopCalls' - stopCalls = (IF s = QUIT THEN 1 ELSE 0) ]_vars

C3_Witness ==
    /\ pc = "Running"
    /\ stopCalls - stopsBeforeStart = 2
    /\ sigWatched[QUIT] = 2
    /\ sigWatched["HUP"] = 1

\* C4: once RegisterAgent has an error the process never reaches Connecting:
\* no worker is constructed, the watcher is never armed, and Connect, Start,
\* Stop and Disconnect are never invoked; a worker exists only if a Register
\* call has succeeded before.
C4_NoWorkerWithoutRegistration ==
    /\ regErr # NoErr =>
          /\ pc \in {"Register", "Sleep", "RegReturned", "Exited", "Panicked"}
          /\ worker = NilAgent
          /\ ~armed
          /\ connectCalls = 0
          /\ startCalls = 0
          /\ stopCalls = 0
          /\ disconnectCalls = 0
    /\ worker # NilAgent =>
          \E i \in 1..Len(attempts) : attempts[i].kind = "ok"

C4_Witness ==
    /\ pc = "Exited"
    /\ regErr = Err("server_error", Maximum)
    /\ exitCode = FatalExitCode

\* Every attempt made so far failed with a response that does not abort.
AllAttemptsTransient ==
    \A i \in 1..Len(attempts) : attempts[i].kind = "server_error"

C6_AbortOnUnauthorized ==
    \A i \in 1..Len(attempts) :
        attempts[i].kind = "unauthorized" =>
            /\ i = Len(attempts)
            /\ pc \in {"RegReturned", "Exited"}
            /\ sleeps = i - 1
            /\ regErr = Err("unauthorized", i)

C6_Witness ==
    /\ pc = "RegReturned"
    /\ Len(attempts) = 3
    /\ attempts[3].kind = "unauthorized"

\* C7: when attempt k succeeds after k-1 transient failures, Register has
\* been invoked exactly k times, no attempt follows, RegisterAgent returns
\* the registered agent with a nil error, and the next step of the
\* orchestrator creates the worker and invokes Connect.
C7_SuccessOnAttemptK ==
    [][ /\ \A i \in 1..Len(attempts') :
              attempts'[i].kind = "ok" =>
                  /\ i = Len(attempts')
                  /\ regErr' = NoErr
                  /\ registered' = RegisteredAgent(i)
                  /\ pc' \notin {"Register", "Sleep", "Panicked"}
        /\ (pc = "RegReturned" /\ regErr = NoErr /\ pc' # pc) =>
              pc' = "Connect" /\ worker' = registered
        /\ (pc = "Connect" /\ pc' # pc) =>
              pc' = "Connecting" /\ connectCalls' = 1 ]_vars

C7_Witness ==
    /\ pc = "Connecting"
    /\ connectCalls = 1
    /\ Len(attempts) = 3
    /\ attempts[1].kind = "server_error"
    /\ attempts[2].kind = "server_error"
    /\ attempts[3].kind = "ok"
    /\ worker = RegisteredAgent(3)

\* C8: when worker.Start returns without error, on its own or after a Stop
\* request, worker.Disconnect is invoked exactly once, after Start has
\* returned and before the process exits or AgentPool.Start returns.
C8_DisconnectAfterCleanStart ==
    /\ disconnectCalls <= 1
    /\ disconnectCalls = 1 => startReturned
    /\ (startReturned /\ startErr = NoErr
            /\ pc \in {"Disconnected", "Returned", "Exited"}) =>
          disconnectCalls = 1

C8_Witness ==
    /\ pc \in {"Returned", "Exited"}
    /\ startReturned
    /\ startErr = NoErr
    /\ disconnectCalls = 1
    /\ stopCalls > stopsBeforeStart

\* C9: the watcher is armed only after the worker exists and Connect has
\* succeeded, and before worker.Start is invoked; no signal delivered during
\* registration or Connect produces a Stop call.
C9_WatcherArmedAfterConnect ==
    /\ armed =>
          /\ worker # NilAgent
          /\ connectCalls = 1
          /\ connectErr = NoErr
          /\ pc \notin {"Register", "Sleep", "RegReturned", "Connect",
                        "Connecting", "Watch"}
    /\ startCalls > 0 => armed
    /\ ~armed => stopCalls = 0
    /\ stopCalls <= sigWatched[QUIT]

C9_Witness ==
    /\ pc = "Running"
    /\ armed
    /\ Len(attempts) >= 2
    /\ sigUnwatched[QUIT] >= 2
    /\ stopCalls = 0

\* C10: worker.Stop is never called on a handle whose Start has not yet been
\* invoked: no Stop call happens between arming the watcher and the
\* invocation of worker.Start.
C10_NoStopBeforeStart ==
    stopCalls > 0 => startCalls > 0

\* C11: after Disconnect, with ExitWithStatus set the process exits with
\* exactly the worker's recorded ExitStatus; otherwise AgentPool.Start
\* returns nil and the process does not exit.
C11_ExitStatusPropagated ==
    /\ (pc = "Exited" /\ disconnectCalls = 1) =>
          exitWithStatus /\ exitCode = exitStatus
    /\ pc = "Returned" =>
          ~exitWithStatus /\ exitCode = -1 /\ disconnectCalls = 1

C11_Witness ==
    /\ pc = "Exited"
    /\ disconnectCalls = 1
    /\ exitStatus = 1
    /\ exitCode = 1

\* C12: a failed attempt without an authorization signal - a non-401
\* response, or a transport failure that returns an error and no response -
\* is transient: it is followed by a delay and another attempt, and only
\* the last of Maximum attempts makes RegisterAgent return its error.
C12_NoResponseIsTransient ==
    \A i \in 1..Len(attempts) :
        (i = Len(attempts)
            /\ attempts[i].kind \in {"server_error", "no_response"}) =>
                \/ pc \in {"Sleep", "Register"}
                \/ i = Maximum /\ pc \in {"RegReturned", "Exited"}

\* C13: worker.Connect, worker.Start and worker.Disconnect are each invoked
\* at most once, whatever they return and whatever signals arrive.
C13_NoStepRetried ==
    /\ connectCalls <= 1
    /\ startCalls <= 1
    /\ disconnectCalls <= 1

C13_Witness ==
    /\ pc = "Returned"
    /\ connectCalls = 1
    /\ startCalls = 1
    /\ disconnectCalls = 1
    /\ sigWatched[QUIT] >= 1
    /\ sigWatched["HUP"] >= 1

\* C14: with a worker whose Start returns once Stop has been requested and
\* a fairly scheduled orchestrator, a QUIT delivered while Start is blocked
\* leads to Start returning, Disconnect being invoked and the orchestrator
\* reaching its terminal state.
C14_QuitLeadsToTerminal ==
    (pc = "Running" /\ stopCalls > stopsBeforeStart) ~>
        (startReturned /\ disconnectCalls = 1 /\ pc \in {"Returned", "Exited"})

\* C15: while worker.Start has not returned the orchestrator stays in
\* Running and neither disconnects nor exits, however many Stop calls were
\* made; the only step that leaves Running is the return of worker.Start.
C15_NoTimeout ==
    [][ /\ (pc = "Running" /\ pc' # "Running") =>
              pc' = "StartReturned" /\ ~startReturned /\ startReturned'
        /\ pc = "Running" => disconnectCalls' = 0 /\ exitCode' = -1
        /\ (startCalls' > 0 /\ ~startReturned') => pc' = "Running" ]_vars

C15_Witness ==
    /\ pc = "Running"
    /\ ~startReturned
    /\ stopCalls - stopsBeforeStart >= 3
    /\ disconnectCalls = 0
    /\ exitCode = -1

\* C16: the watcher stays armed as long as the process lives: a QUIT
\* delivered after worker.Start has returned, also after Disconnect when
\* AgentPool.Start has returned nil, still makes one Stop call on the same
\* worker; no signal is handled once the process has exited.
C16_ListenerNeverTornDown ==
    [][ /\ armed => armed'
        /\ (startReturned' /\ Alive') => armed'
        /\ (startReturned /\ sigWatched'[QUIT] = sigWatched[QUIT] + 1) =>
              Alive /\ stopCalls' = stopCalls + 1 /\ worker' = worker
        /\ ~Alive =>
              /\ sigWatched' = sigWatched
              /\ sigUnwatched' = sigUnwatched
              /\ stopCalls' = stopCalls ]_vars

C16_Witness ==
    /\ pc = "Returned"
    /\ disconnectCalls = 1
    /\ stopsAfterReturn >= 2
    /\ stopCalls = stopsAfterReturn

\* C17: every attempt of one RegisterAgent call sends the same descriptor,
\* and no attempt, failed or successful, modifies it.
C17_SameDescriptorEveryAttempt ==
    [][ /\ descriptor' = descriptor
        /\ \A i \in 1..Len(attempts') : attempts'[i].sent = descriptor' ]_vars

C17_Witness ==
    /\ Len(attempts) = 3
    /\ attempts[3].kind = "ok"
    /\ descriptor = TemplateEC2
    /\ attempts[1].sent = TemplateEC2
    /\ attempts[3].sent = TemplateEC2

\* C18: AgentPool.Start returns nil only after registration succeeded,
\* Connect succeeded, worker.Start returned without error and Disconnect was
\* invoked; after a registration, connect or run failure it never returns,
\* the process is terminated instead.
C18_ReturnsNilOnlyAfterCleanRun ==
    /\ pc = "Returned" =>
          /\ Len(attempts) > 0
          /\ attempts[Len(attempts)].kind = "ok"
          /\ regErr = NoErr
          /\ connectCalls = 1
          /\ connectErr = NoErr
          /\ startReturned
          /\ startErr = NoErr
          /\ disconnectCalls = 1
          /\ exitCode = -1
    /\ (regErr # NoErr /\ pc \notin {"Register", "Sleep", "RegReturned"}) =>
          pc \in {"Exited", "Panicked"}
    /\ connectErr # NoErr => pc = "Exited" /\ exitCode = FatalExitCode
    /\ (startErr # NoErr /\ pc # "StartReturned") =>
          pc = "Exited" /\ exitCode = FatalExitCode

C18_Witness ==
    /\ pc = "Returned"
    /\ Len(attempts) = 2
    /\ stopCalls = 0

\* C19: when RegisterAgent returns a nil error, the agent it returns, and so
\* the agent the worker is built from, is the result of the last, succeeding
\* Register attempt - never the template, never what an earlier failed
\* attempt returned.
C19_RegisteredAgentIsLastResult ==
    /\ (pc \notin {"Register", "Sleep", "Panicked"} /\ regErr = NoErr) =>
          /\ attempts[Len(attempts)].kind = "ok"
          /\ registered = RegisteredAgent(Len(attempts))
          /\ registered \notin Templates
    /\ worker # NilAgent =>
          /\ worker = registered
          /\ worker = RegisteredAgent(Len(attempts))

C19_Witness ==
    /\ pc = "Running"
    /\ Len(attempts) = 2
    /\ attempts[1].kind = "server_error"
    /\ worker = RegisteredAgent(2)

====
